---- MODULE Spec2Model ----
(***************************************************************************)
(* Nansen listener: message parser, flow classifier, pressure model,       *)
(* windowed aggregation, breakdown trace and the BACKTEST replay loop of   *)
(* nansen_listener1.py.                                                    *)
(*                                                                         *)
(* Numbers.  The program computes in binary floating point; the model uses *)
(* exact fixed point:                                                      *)
(*   - instants are whole seconds counted from a midnight UTC;             *)
(*   - usd_amount is counted in 1/UsdScale dollars (RE_USD keeps at most   *)
(*     four decimals);                                                     *)
(*   - a weight is counted in tenths, so pressure_usd is in 1/100000 USD;  *)
(*   - a normalized pressure is counted in millionths (Micro);             *)
(*   - tanh is tabulated by the arguments at which round(50 + 50*tanh x)   *)
(*     and the one-decimal rendering of 50 + 50*tanh x change value, each  *)
(*     to five decimals (ConfScale).                                       *)
(* Sums are exact, so the order of a floating point summation is not       *)
(* represented.                                                            *)
(***************************************************************************)
EXTENDS Integers, Sequences, FiniteSets, TLC

VARIABLES
  pc,                  \* position of the run
  MIN_LAG_MINUTES,     \* configuration, read once at start-up
  SNAPSHOT_EVERY_SEC,  \* configuration, read once at start-up
  events,              \* List[Event] held by main / handed to the aggregator
  now_utc,             \* evaluation instant of the forward path
  agg,                 \* last result of aggregate_by_window
  bks,                 \* last result of breakdowns_by_window
  pointer,             \* replay: evaluation instant p
  tN,                  \* replay: timestamp of the last event
  history,             \* replay: instants appended to the history log, in order
  notified,            \* replay: instants at which send_to_channel was called
  msg_text,            \* parser input: the message, a sequence of lines
  msg_date_utc,        \* parser input: receipt instant
  rows,                \* parser output
  base_kind,           \* classify_flow input
  raw_line_upper,      \* classify_flow input
  flow,                \* classify_flow output
  norm_pressures,      \* calc_conf_from_pressures input
  conf,                \* calc_conf_from_pressures output for norm_pressures
  prev,                \* the input and output of the previous application, if any
  breakdown_cap        \* the max_lines handed to breakdowns_by_window

vars == <<pc, MIN_LAG_MINUTES, SNAPSHOT_EVERY_SEC, events, now_utc, agg, bks,
          pointer, tN, history, notified, msg_text, msg_date_utc, rows,
          base_kind, raw_line_upper, flow, norm_pressures, conf, prev,
          breakdown_cap>>

----------------------------------------------------------------------------
(* Units *)

UsdScale == 10000
Micro == 1000000
ConfScale == 100000
Hour == 3600
Minute == 60

Abs(x) == IF x < 0 THEN -x ELSE x
Max(a, b) == IF a >= b THEN a ELSE b

RECURSIVE Gcd(_, _)
Gcd(a, b) == IF b = 0 THEN a ELSE Gcd(b, a % b)

RECURSIVE SumSeq(_)
SumSeq(s) == IF s = <<>> THEN 0 ELSE Head(s) + SumSeq(Tail(s))

Front(s) == SubSeq(s, 1, Len(s) - 1)
Last(s) == s[Len(s)]

\* [abs(x) for x in s]
AbsAll(s) == [i \in 1..Len(s) |-> Abs(s[i])]

\* division of signed by positive, rounded toward zero
DivTrunc(n, d) == IF n >= 0 THEN n \div d ELSE -((-n) \div d)

\* nearest integer to n/d (d > 0), halves to the even neighbour
RoundDiv(n, d) ==
  LET q == n \div d
      r == n % d
  IN  IF 2 * r < d THEN q
      ELSE IF 2 * r > d THEN q + 1
      ELSE IF q % 2 = 0 THEN q ELSE q + 1

----------------------------------------------------------------------------
(* Configuration *)

TOKENS == <<"AAVE", "LINK", "HYPE", "ETH", "STABLES">>
TokenSet == {TOKENS[i] : i \in 1..Len(TOKENS)}

FlowKinds == {"CEX_IN", "CEX_OUT", "DEX", "VC_IN", "VC_OUT", "MERCADO"}

\* WEIGHTS_KIND, in tenths
WEIGHTS_KIND ==
  [k \in FlowKinds |->
     CASE k = "CEX_IN" -> 15
       [] k = "CEX_OUT" -> -10
       [] k = "DEX" -> 5
       [] k = "VC_IN" -> 12
       [] k = "VC_OUT" -> -7
       [] k = "MERCADO" -> 3]

\* MARKET_CAPS, in millions of USD
MARKET_CAPS ==
  [t \in {"AAVE", "LINK", "HYPE", "ETH"} |->
     CASE t = "AAVE" -> 1200
       [] t = "LINK" -> 9000
       [] t = "HYPE" -> 200
       [] t = "ETH" -> 400000]

WindowLabels == <<"1h", "4h", "24h">>
WINDOWS == [w \in {"1h", "4h", "24h"} |->
              CASE w = "1h" -> 1 [] w = "4h" -> 4 [] w = "24h" -> 24]

MAX_BREAKDOWN_LINES == 30
REPORT_DEVIATION == 40

----------------------------------------------------------------------------
(* Pressure model *)

\* in millions of USD; the fallback is 1_000_000_000
get_market_cap(token) ==
  IF token \in DOMAIN MARKET_CAPS THEN MARKET_CAPS[token] ELSE 1000

\* a plausible slip: the sign convention of the table is inverted
weight_for_flow_negated(f) ==
  IF f \in DOMAIN WEIGHTS_KIND THEN -WEIGHTS_KIND[f] ELSE 0

\* in tenths
weight_for_flow(f) == IF f \in DOMAIN WEIGHTS_KIND THEN WEIGHTS_KIND[f] ELSE 0

\* signed pressure, in 1/100000 USD
pressure_usd(ev) == ev.usd_amount * weight_for_flow(ev.flow)

\* pressure * (1_000_000 / max(1, market cap)), in millionths.  Every market
\* cap of the table and the fallback exceed 1 USD, so max(1.0, .) returns the
\* market cap itself.
normalize_pressure(token, pressure) ==
  LET mc == get_market_cap(token)
  IN  DivTrunc(pressure * 10, mc)


\* [pressure_usd(ev) for ev in evs]
Pressures(evs) == [i \in 1..Len(evs) |-> pressure_usd(evs[i])]

\* [normalize_pressure(ev.token, pressure_usd(ev)) for ev in evs]
NormPressures(evs) ==
  [i \in 1..Len(evs) |-> normalize_pressure(evs[i].token, pressure_usd(evs[i]))]

----------------------------------------------------------------------------
(* tanh, tabulated.  RoundThresholds[k] is the least x (in 1/ConfScale,     *)
(* rounded up) with 50 + 50*tanh(x) >= k - 1/2, so that                     *)
(* int(round(50 + 50*tanh x)) is the number of entries <= x.                *)
(* TenthThresholds[j] is the same for tenths: the least x with              *)
(* 50 + 50*tanh(x) >= (j - 1/2)/10, so that the "%.1f" rendering of         *)
(* 50 + 50*tanh x is (number of entries <= x)/10.                           *)

RoundThresholds ==
  <<
    -264665, -209229, -183178, -165839, -152752, -142192, -133307, -125615, -118813, -112702,
    -107143, -102032, -97295, -92872, -88718, -84795, -81074, -77529, -74141, -70892,
    -67766, -64752, -61838, -59014, -56272, -53606, -51007, -48470, -45989, -43561,
    -41180, -38842, -36544, -34282, -32054, -29856, -27686, -25541, -23418, -21317,
    -19233, -17166, -15114, -13073, -11044, -9024, -7011, -5004, -3000, -1000,
    1001, 3001, 5005, 7012, 9025, 11045, 13074, 15115, 17167, 19234,
    21318, 23419, 25542, 27687, 29857, 32055, 34283, 36545, 38843, 41181,
    43562, 45990, 48471, 51008, 53607, 56273, 59015, 61839, 64753, 67767,
    70893, 74142, 77530, 81075, 84796, 88719, 92873, 97296, 102033, 107144,
    112703, 118814, 125616, 133308, 142193, 152753, 165840, 183179, 209230, 264666
  >>

TenthThresholds ==
  <<
    -380020, -325039, -299448, -282574, -269958, -259874, -251471, -244266, -237957, -232345,
    -227291, -222692, -218472, -214573, -210950, -207564, -204387, -201394, -198565, -195882,
    -193330, -190898, -188574, -186348, -184213, -182162, -180187, -178284, -176446, -174671,
    -172952, -171288, -169673, -168106, -166584, -165103, -163663, -162259, -160891, -159557,
    -158255, -156983, -155741, -154525, -153337, -152173, -151034, -149918, -148823, -147750,
    -146698, -145664, -144650, -143654, -142675, -141713, -140767, -139837, -138922, -138021,
    -137135, -136262, -135402, -134555, -133720, -132898, -132086, -131287, -130498, -129719,
    -128951, -128193, -127445, -126706, -125976, -125256, -124544, -123840, -123145, -122457,
    -121778, -121106, -120442, -119785, -119135, -118493, -117856, -117227, -116604, -115987,
    -115377, -114772, -114174, -113581, -112994, -112412, -111836, -111265, -110700, -110139,
    -109584, -109033, -108487, -107946, -107409, -106877, -106350, -105826, -105307, -104792,
    -104282, -103775, -103272, -102773, -102278, -101787, -101300, -100816, -100335, -99858,
    -99385, -98915, -98448, -97984, -97524, -97067, -96613, -96162, -95714, -95269,
    -94827, -94388, -93951, -93518, -93087, -92658, -92233, -91810, -91390, -90972,
    -90557, -90144, -89733, -89325, -88920, -88517, -88116, -87717, -87320, -86926,
    -86534, -86144, -85756, -85370, -84986, -84604, -84225, -83847, -83471, -83097,
    -82725, -82355, -81987, -81620, -81255, -80893, -80531, -80172, -79814, -79458,
    -79104, -78751, -78400, -78051, -77703, -77356, -77012, -76668, -76327, -75986,
    -75648, -75310, -74975, -74640, -74307, -73975, -73645, -73316, -72989, -72663,
    -72338, -72014, -71692, -71371, -71051, -70733, -70415, -70099, -69784, -69471,
    -69158, -68847, -68537, -68228, -67920, -67613, -67307, -67003, -66699, -66397,
    -66095, -65795, -65496, -65197, -64900, -64604, -64309, -64014, -63721, -63429,
    -63137, -62847, -62557, -62269, -61981, -61694, -61409, -61124, -60840, -60556,
    -60274, -59993, -59712, -59432, -59153, -58875, -58598, -58321, -58046, -57771,
    -57497, -57223, -56951, -56679, -56408, -56137, -55868, -55599, -55331, -55064,
    -54797, -54531, -54266, -54001, -53737, -53474, -53212, -52950, -52688, -52428,
    -52168, -51909, -51650, -51392, -51135, -50878, -50622, -50367, -50112, -49858,
    -49604, -49351, -49098, -48846, -48595, -48344, -48094, -47844, -47595, -47347,
    -47099, -46851, -46604, -46358, -46112, -45867, -45622, -45377, -45134, -44890,
    -44647, -44405, -44163, -43922, -43681, -43440, -43201, -42961, -42722, -42483,
    -42245, -42008, -41771, -41534, -41297, -41062, -40826, -40591, -40357, -40122,
    -39889, -39655, -39422, -39190, -38958, -38726, -38495, -38264, -38033, -37803,
    -37573, -37344, -37115, -36886, -36658, -36430, -36202, -35975, -35748, -35522,
    -35296, -35070, -34844, -34619, -34395, -34170, -33946, -33722, -33499, -33276,
    -33053, -32830, -32608, -32386, -32165, -31943, -31722, -31502, -31281, -31061,
    -30842, -30622, -30403, -30184, -29965, -29747, -29529, -29311, -29094, -28876,
    -28659, -28442, -28226, -28010, -27794, -27578, -27363, -27147, -26932, -26718,
    -26503, -26289, -26075, -25861, -25647, -25434, -25221, -25008, -24795, -24583,
    -24371, -24159, -23947, -23735, -23524, -23313, -23102, -22891, -22681, -22470,
    -22260, -22050, -21840, -21631, -21421, -21212, -21003, -20794, -20585, -20377,
    -20169, -19960, -19752, -19545, -19337, -19129, -18922, -18715, -18508, -18301,
    -18094, -17888, -17682, -17475, -17269, -17063, -16857, -16652, -16446, -16241,
    -16036, -15830, -15625, -15421, -15216, -15011, -14807, -14602, -14398, -14194,
    -13990, -13786, -13582, -13379, -13175, -12972, -12768, -12565, -12362, -12159,
    -11956, -11753, -11551, -11348, -11145, -10943, -10741, -10538, -10336, -10134,
    -9932, -9730, -9528, -9326, -9125, -8923, -8722, -8520, -8319, -8117,
    -7916, -7715, -7514, -7313, -7111, -6910, -6710, -6509, -6308, -6107,
    -5906, -5706, -5505, -5304, -5104, -4903, -4703, -4503, -4302, -4102,
    -3901, -3701, -3501, -3301, -3100, -2900, -2700, -2500, -2300, -2100,
    -1900, -1700, -1500, -1300, -1100, -900, -700, -500, -300, -100,
    101, 301, 501, 701, 901, 1101, 1301, 1501, 1701, 1901,
    2101, 2301, 2501, 2701, 2901, 3101, 3302, 3502, 3702, 3902,
    4103, 4303, 4504, 4704, 4904, 5105, 5305, 5506, 5707, 5907,
    6108, 6309, 6510, 6711, 6911, 7112, 7314, 7515, 7716, 7917,
    8118, 8320, 8521, 8723, 8924, 9126, 9327, 9529, 9731, 9933,
    10135, 10337, 10539, 10742, 10944, 11146, 11349, 11552, 11754, 11957,
    12160, 12363, 12566, 12769, 12973, 13176, 13380, 13583, 13787, 13991,
    14195, 14399, 14603, 14808, 15012, 15217, 15422, 15626, 15831, 16037,
    16242, 16447, 16653, 16858, 17064, 17270, 17476, 17683, 17889, 18095,
    18302, 18509, 18716, 18923, 19130, 19338, 19546, 19753, 19961, 20170,
    20378, 20586, 20795, 21004, 21213, 21422, 21632, 21841, 22051, 22261,
    22471, 22682, 22892, 23103, 23314, 23525, 23736, 23948, 24160, 24372,
    24584, 24796, 25009, 25222, 25435, 25648, 25862, 26076, 26290, 26504,
    26719, 26933, 27148, 27364, 27579, 27795, 28011, 28227, 28443, 28660,
    28877, 29095, 29312, 29530, 29748, 29966, 30185, 30404, 30623, 30843,
    31062, 31282, 31503, 31723, 31944, 32166, 32387, 32609, 32831, 33054,
    33277, 33500, 33723, 33947, 34171, 34396, 34620, 34845, 35071, 35297,
    35523, 35749, 35976, 36203, 36431, 36659, 36887, 37116, 37345, 37574,
    37804, 38034, 38265, 38496, 38727, 38959, 39191, 39423, 39656, 39890,
    40123, 40358, 40592, 40827, 41063, 41298, 41535, 41772, 42009, 42246,
    42484, 42723, 42962, 43202, 43441, 43682, 43923, 44164, 44406, 44648,
    44891, 45135, 45378, 45623, 45868, 46113, 46359, 46605, 46852, 47100,
    47348, 47596, 47845, 48095, 48345, 48596, 48847, 49099, 49352, 49605,
    49859, 50113, 50368, 50623, 50879, 51136, 51393, 51651, 51910, 52169,
    52429, 52689, 52951, 53213, 53475, 53738, 54002, 54267, 54532, 54798,
    55065, 55332, 55600, 55869, 56138, 56409, 56680, 56952, 57224, 57498,
    57772, 58047, 58322, 58599, 58876, 59154, 59433, 59713, 59994, 60275,
    60557, 60841, 61125, 61410, 61695, 61982, 62270, 62558, 62848, 63138,
    63430, 63722, 64015, 64310, 64605, 64901, 65198, 65497, 65796, 66096,
    66398, 66700, 67004, 67308, 67614, 67921, 68229, 68538, 68848, 69159,
    69472, 69785, 70100, 70416, 70734, 71052, 71372, 71693, 72015, 72339,
    72664, 72990, 73317, 73646, 73976, 74308, 74641, 74976, 75311, 75649,
    75987, 76328, 76669, 77013, 77357, 77704, 78052, 78401, 78752, 79105,
    79459, 79815, 80173, 80532, 80894, 81256, 81621, 81988, 82356, 82726,
    83098, 83472, 83848, 84226, 84605, 84987, 85371, 85757, 86145, 86535,
    86927, 87321, 87718, 88117, 88518, 88921, 89326, 89734, 90145, 90558,
    90973, 91391, 91811, 92234, 92659, 93088, 93519, 93952, 94389, 94828,
    95270, 95715, 96163, 96614, 97068, 97525, 97985, 98449, 98916, 99386,
    99859, 100336, 100817, 101301, 101788, 102279, 102774, 103273, 103776, 104283,
    104793, 105308, 105827, 106351, 106878, 107410, 107947, 108488, 109034, 109585,
    110140, 110701, 111266, 111837, 112413, 112995, 113582, 114175, 114773, 115378,
    115988, 116605, 117228, 117857, 118494, 119136, 119786, 120443, 121107, 121779,
    122458, 123146, 123841, 124545, 125257, 125977, 126707, 127446, 128194, 128952,
    129720, 130499, 131288, 132087, 132899, 133721, 134556, 135403, 136263, 137136,
    138022, 138923, 139838, 140768, 141714, 142676, 143655, 144651, 145665, 146699,
    147751, 148824, 149919, 151035, 152174, 153338, 154526, 155742, 156984, 158256,
    159558, 160892, 162260, 163664, 165104, 166585, 168107, 169674, 171289, 172953,
    174672, 176447, 178285, 180188, 182163, 184214, 186349, 188575, 190899, 193331,
    195883, 198566, 201395, 204388, 207565, 210951, 214574, 218473, 222693, 227292,
    232346, 237958, 244267, 251472, 259875, 269959, 282575, 299449, 325040, 380021
  >>

\* number of entries of the increasing table tab that are <= x
RECURSIVE Rank(_, _, _, _)
Rank(tab, x, lo, hi) ==
  IF lo = hi THEN lo
  ELSE LET mid == (lo + hi + 1) \div 2
       IN  IF tab[mid] <= x THEN Rank(tab, x, mid, hi)
           ELSE Rank(tab, x, lo, mid - 1)

\* floor(ConfScale * n/d) for d > 0, saturated at |n/d| >= 4 where tanh is
\* beyond the last entry of both tables
TanhArg(n, d) ==
  IF n >= 4 * d THEN 4 * ConfScale
  ELSE IF -n >= 4 * d THEN -4 * ConfScale
  ELSE LET g == Gcd(Abs(n), d)
       IN  ((n \div g) * ConfScale) \div (d \div g)

\* int(round(50.0 + 50.0 * math.tanh(total / S))), with S = S2/2
RoundConf(total, S2) ==
  Rank(RoundThresholds, TanhArg(2 * total, S2), 0, Len(RoundThresholds))

\* f"{50.0 + 50.0 * math.tanh(cum / S):.1f}", in tenths, with S = S2/2
TenthConf(cum, S2) ==
  Rank(TenthThresholds, TanhArg(2 * cum, S2), 0, Len(TenthThresholds))

----------------------------------------------------------------------------
(* Windows: aggregation and confidence *)

\* sorted(s) for a sequence of integers
RECURSIVE SortInts(_)
SortInts(s) ==
  IF s = <<>> THEN <<>>
  ELSE LET x == Head(s)
           rest == SortInts(Tail(s))
           lt == SelectSeq(rest, LAMBDA y : y < x)
           ge == SelectSeq(rest, LAMBDA y : y >= x)
       IN  lt \o <<x>> \o ge

\* twice statistics.median(vals), vals not empty
Median2(vals) ==
  LET s == SortInts(vals)
      n == Len(s)
  IN  IF n % 2 = 1 THEN 2 * s[(n + 1) \div 2]
      ELSE s[n \div 2] + s[n \div 2 + 1]

\* a plausible slip: the minimum lag is not applied
events_in_window_nolag(evs, now, hours) ==
  LET tmin == now - hours * Hour
  IN  SelectSeq(evs, LAMBDA e : tmin <= e.ts /\ e.ts <= now)

events_in_window(evs, now, hours) ==
  LET tmin == now - hours * Hour
      latest_ok == now - MIN_LAG_MINUTES * Minute
  IN  SelectSeq(evs, LAMBDA e : tmin <= e.ts /\ e.ts <= latest_ok)

\* a plausible slip: the bounded transform is left out, conf = 50 + 50*total/S
calc_conf_linear(np) ==
  LET total == SumSeq(np)
      abs_vals == AbsAll(SelectSeq(np, LAMBDA x : x # 0))
      S2 == IF abs_vals # <<>> THEN Max(2 * Micro, Median2(abs_vals) * 10)
            ELSE 2 * Micro
  IN  [conf |-> 50 + RoundDiv(100 * total, S2), total |-> total]

\* returns (conf, total); S is carried doubled, S2 = 2*S
calc_conf_from_pressures(np) ==
  LET total == SumSeq(np)
      abs_vals == AbsAll(SelectSeq(np, LAMBDA x : x # 0))
      S2 == IF abs_vals # <<>> THEN Max(2 * Micro, Median2(abs_vals) * 10)
            ELSE 2 * Micro
  IN  [conf |-> RoundConf(total, S2), total |-> total]

\* round(x, 2) of a pressure given in 1/100000 USD: the result is in cents
Round2(p) == RoundDiv(p, 1000)

OfToken(evs, token) == SelectSeq(evs, LAMBDA e : e.token = token)

aggregate_by_window(evs, now) ==
  [token \in TokenSet |->
    [wlab \in DOMAIN WINDOWS |->
      LET evs_w == events_in_window(evs, now, WINDOWS[wlab])
          mine == OfToken(evs_w, token)
          bucket_norm == NormPressures(mine)
          sum_pressure_usd == SumSeq(Pressures(mine))
      IN  [conf |-> calc_conf_from_pressures(bucket_norm).conf,
           events |-> Len(mine),
           usd |-> Round2(sum_pressure_usd)]]]

\* seq.sort(key=lambda e: e.ts): stable
RECURSIVE SortByTs(_)
SortByTs(s) ==
  IF s = <<>> THEN <<>>
  ELSE LET e == Last(s)
           rest == SortByTs(Front(s))
           le == SelectSeq(rest, LAMBDA y : y.ts <= e.ts)
           gt == SelectSeq(rest, LAMBDA y : y.ts > e.ts)
       IN  le \o <<e>> \o gt

\* a plausible slip: the running sum is not accumulated
CumNormLastOnly(prelim_norm, i) == prelim_norm[i]

\* cum_norm after the i-th event of the sorted sequence
CumNorm(prelim_norm, i) == SumSeq(SubSeq(prelim_norm, 1, i))

\* round(abs(p_n) / total_norm_abs * 100.0, 2), in hundredths of a percent
PctNorm(p_n, total_norm_abs) ==
  IF total_norm_abs > 0
  THEN LET g == Gcd(Abs(p_n), total_norm_abs)
       IN  RoundDiv((Abs(p_n) \div g) * 10000, total_norm_abs \div g)
  ELSE 0

\* a plausible slip: items[:max_lines], the oldest records are kept
TruncateHead(items, max_lines) ==
  IF max_lines > 0 /\ Len(items) > max_lines
  THEN SubSeq(items, 1, max_lines)
  ELSE items

\* items[-max_lines:] when max_lines > 0 and len(items) > max_lines
Truncate(items, max_lines) ==
  IF max_lines > 0 /\ Len(items) > max_lines
  THEN SubSeq(items, Len(items) - max_lines + 1, Len(items))
  ELSE items

breakdowns_by_window(evs, now, max_lines) ==
  [token \in TokenSet |->
    [wlab \in DOMAIN WINDOWS |->
      LET seq == SortByTs(OfToken(events_in_window(evs, now, WINDOWS[wlab]), token))
          prelim_norm == NormPressures(seq)
          abs_vals == AbsAll(SelectSeq(prelim_norm, LAMBDA x : x # 0))
          S2 == IF abs_vals # <<>> THEN Max(2 * Micro, Median2(abs_vals) * 10)
                ELSE 2 * Micro
          total_norm_abs == SumSeq(AbsAll(prelim_norm))
          items == [i \in 1..Len(seq) |->
                      LET ev == seq[i]
                          p_usd == pressure_usd(ev)
                          p_n == normalize_pressure(token, p_usd)
                          cum_norm == CumNorm(prelim_norm, i)
                      IN  [ts |-> ev.ts,
                           kind |-> ev.flow,
                           usd |-> Round2(p_usd),
                           usd_amount |-> RoundDiv(ev.usd_amount, 100),
                           weight |-> weight_for_flow(ev.flow),
                           pressure_norm |-> p_n,
                           pct_norm |-> PctNorm(p_n, total_norm_abs),
                           conf_after |-> TenthConf(cum_norm, S2)]]
          agg_tmp == aggregate_by_window(evs, now)
      IN  [conf |-> agg_tmp[token][wlab].conf,
           events |-> Len(seq),
           usd |-> Round2(SumSeq(Pressures(seq))),
           events_list |-> Truncate(items, max_lines)]]]

----------------------------------------------------------------------------
(* Text.  A text is a sequence of one-character strings; a message is the  *)
(* sequence of its lines (the result of splitlines).                       *)

UPPER == <<"A", "B", "C", "D", "E", "F", "G", "H", "I", "J", "K", "L", "M", "N", "O", "P", "Q", "R", "S", "T", "U", "V", "W", "X", "Y", "Z">>
LOWER == <<"a", "b", "c", "d", "e", "f", "g", "h", "i", "j", "k", "l", "m", "n", "o", "p", "q", "r", "s", "t", "u", "v", "w", "x", "y", "z">>
UpperLetters == {UPPER[i] : i \in 1..Len(UPPER)}
LowerLetters == {LOWER[i] : i \in 1..Len(LOWER)}
DIGITS == <<"0", "1", "2", "3", "4", "5", "6", "7", "8", "9">>
Digits == {DIGITS[i] : i \in 1..Len(DIGITS)}
DigitVal(c) == (CHOOSE i \in 1..Len(DIGITS) : DIGITS[i] = c) - 1
NL == "\n"

\* str.upper, one character
UpperChar(c) ==
  IF c \in LowerLetters THEN UPPER[CHOOSE i \in 1..Len(LOWER) : LOWER[i] = c] ELSE c

\* str.upper
Upper(s) == [i \in 1..Len(s) |-> UpperChar(s[i])]

\* pat in u
Contains(u, pat) ==
  \E i \in 1..(Len(u) - Len(pat) + 1) : SubSeq(u, i, i + Len(pat) - 1) = pat

\* the text s continues with pat at position i
MatchAt(s, i, pat) ==
  i >= 1 /\ i + Len(pat) - 1 <= Len(s) /\ SubSeq(s, i, i + Len(pat) - 1) = pat

\* \w at position i of s (a position outside s holds no character)
WordAt(s, i) ==
  i \in 1..Len(s) /\ s[i] \in UpperLetters \cup LowerLetters \cup Digits \cup {"_"}

\* \b just before position i of s
Boundary(s, i) == WordAt(s, i - 1) # WordAt(s, i)

DigitAt(s, i) == i \in 1..Len(s) /\ s[i] \in Digits

\* str.replace(",", "")
StripCommas(s) == SelectSeq(s, LAMBDA c : c # ",")

\* "\n".join(lines)
RECURSIVE JoinLines(_)
JoinLines(lines) ==
  IF lines = <<>> THEN <<>>
  ELSE IF Len(lines) = 1 THEN lines[1]
  ELSE lines[1] \o <<NL>> \o JoinLines(Tail(lines))

\* the value of a sequence of digits
RECURSIVE DigitsValue(_)
DigitsValue(ds) ==
  IF ds = <<>> THEN 0 ELSE 10 * DigitsValue(Front(ds)) + DigitVal(Last(ds))

----------------------------------------------------------------------------
(* Regular expressions *)

T_CEX == <<"C", "E", "X">>
T_DEX == <<"D", "E", "X">>
T_VC == <<"V", "C">>
T_MERCADO == <<"M", "E", "R", "C", "A", "D", "O">>
KindWords == <<T_CEX, T_DEX, T_VC, T_MERCADO>>

\* RE_KIND.search(line): <<>> for no match, else <<group(1).upper()>>.
\* re.I; the leftmost match wins, and no two alternatives match at one place.
RE_KIND_search(line) ==
  LET u == Upper(line)
      hit(i) == {k \in 1..Len(KindWords) :
                   /\ MatchAt(u, i, KindWords[k])
                   /\ Boundary(line, i)
                   /\ Boundary(line, i + Len(KindWords[k]))}
      at == {i \in 1..Len(line) : hit(i) # {}}
  IN  IF at = {} THEN <<>>
      ELSE LET i == CHOOSE j \in at : \A j2 \in at : j <= j2
           IN  <<KindWords[CHOOSE k \in hit(i) : TRUE]>>

\* number of digits at s[i], s[i+1], ..., at most max
RECURSIVE DigitRun(_, _, _)
DigitRun(s, i, max) ==
  IF max > 0 /\ DigitAt(s, i) THEN 1 + DigitRun(s, i + 1, max - 1) ELSE 0

\* number of whitespace characters from s[i] on
RECURSIVE SpaceRun(_, _)
SpaceRun(s, i) ==
  IF i \in 1..Len(s) /\ s[i] = " " THEN 1 + SpaceRun(s, i + 1) ELSE 0

\* (?:,[0-9]{3})* from position i: the digits taken, commas left out
RECURSIVE Groups(_, _)
Groups(s, i) ==
  IF i \in 1..Len(s) /\ s[i] = "," /\ DigitRun(s, i + 1, 3) = 3
  THEN SubSeq(s, i + 1, i + 3) \o Groups(s, i + 4)
  ELSE <<>>

\* RE_USD.search(s): <<>> for no match, else <<[int, frac]>>, the digits of
\* group(2) before and after the decimal point with its commas removed.
\* The match is anchored at the leftmost "$" that \s* and a digit follow; the
\* optional sign before it is group(1), which the parser never reads.
RE_USD_search(s) ==
  LET at == {j \in 1..Len(s) : s[j] = "$" /\ DigitAt(s, j + 1 + SpaceRun(s, j + 1))}
  IN  IF at = {} THEN <<>>
      ELSE LET j == CHOOSE a \in at : \A b \in at : a <= b
               d0 == j + 1 + SpaceRun(s, j + 1)
               n1 == DigitRun(s, d0, 3)
               grp == Groups(s, d0 + n1)
               p == d0 + n1 + (Len(grp) \div 3) * 4
               nf == IF p \in 1..Len(s) /\ s[p] = "." THEN DigitRun(s, p + 1, 4) ELSE 0
           IN  <<[int |-> SubSeq(s, d0, d0 + n1 - 1) \o grp,
                  frac |-> SubSeq(s, p + 1, p + nf)]>>

\* float(text) of the digits of a match, in 1/UsdScale USD
FloatOf(m) ==
  LET pad == [i \in 1..4 |-> IF i <= Len(m.frac) THEN m.frac[i] ELSE "0"]
  IN  DigitsValue(m.int) * UsdScale + DigitsValue(pad)

\* RE_HHMMSS.search(line): -1 for no match, else the seconds since midnight
\* of group(0).  \b([01]?\d|2[0-3]):[0-5]\d:[0-5]\d\b
RE_HHMMSS_search(line) ==
  LET in(i, cs) == i \in 1..Len(line) /\ line[i] \in cs
      rest(i) == /\ in(i, {":"})
                 /\ in(i + 1, {"0", "1", "2", "3", "4", "5"}) /\ DigitAt(line, i + 2)
                 /\ in(i + 3, {":"})
                 /\ in(i + 4, {"0", "1", "2", "3", "4", "5"}) /\ DigitAt(line, i + 5)
                 /\ Boundary(line, i + 6)
      two(i) == /\ \/ in(i, {"0", "1"}) /\ DigitAt(line, i + 1)
                   \/ in(i, {"2"}) /\ in(i + 1, {"0", "1", "2", "3"})
                /\ rest(i + 2)
      one(i) == DigitAt(line, i) /\ rest(i + 1)
      at == {i \in 1..Len(line) : Boundary(line, i) /\ (two(i) \/ one(i))}
  IN  IF at = {} THEN -1
      ELSE LET i == CHOOSE a \in at : \A b \in at : a <= b
               hl == IF two(i) THEN 2 ELSE 1
               h == DigitsValue(SubSeq(line, i, i + hl - 1))
               m == DigitsValue(SubSeq(line, i + hl + 1, i + hl + 2))
               s == DigitsValue(SubSeq(line, i + hl + 4, i + hl + 5))
           IN  h * Hour + m * Minute + s

\* RE_TOKEN_ANY.search(up): <<>> for no match, else <<group(1)>>: the leftmost
\* run of 2 to 10 capital letters with a word boundary on both sides
RE_TOKEN_ANY_search(up) ==
  LET run(i, n) == /\ i + n - 1 <= Len(up)
                   /\ \A k \in i..(i + n - 1) : up[k] \in UpperLetters
                   /\ Boundary(up, i)
                   /\ Boundary(up, i + n)
      at == {i \in 1..Len(up) : \E n \in 2..10 : run(i, n)}
  IN  IF at = {} THEN <<>>
      ELSE LET i == CHOOSE a \in at : \A b \in at : a <= b
               n == CHOOSE k \in 2..10 : run(i, k)
           IN  <<SubSeq(up, i, i + n - 1)>>

----------------------------------------------------------------------------
(* Parser and flow classification *)

\* the characters of each tracked token
TOKEN_TEXT ==
  [t \in TokenSet |->
     CASE t = "AAVE" -> <<"A", "A", "V", "E">>
       [] t = "LINK" -> <<"L", "I", "N", "K">>
       [] t = "HYPE" -> <<"H", "Y", "P", "E">>
       [] t = "ETH" -> <<"E", "T", "H">>
       [] t = "STABLES" -> <<"S", "T", "A", "B", "L", "E", "S">>]

\* <<>> for None, else <<token>>, the token as text
pick_token_from_text(text) ==
  LET up == Upper(text)
      present == SelectSeq(TOKENS, LAMBDA tok : Contains(up, TOKEN_TEXT[tok]))
  IN  IF present # <<>> THEN <<TOKEN_TEXT[present[1]]>>
      ELSE RE_TOKEN_ANY_search(up)

T_WITHDRAW == <<"W", "I", "T", "H", "D", "R", "A", "W">>
T_WITHDRAWAL == <<"W", "I", "T", "H", "D", "R", "A", "W", "A", "L">>
T_OUTFLOW_FROM_CEX == <<"O", "U", "T", "F", "L", "O", "W", " ", "F", "R", "O", "M", " ", "C", "E", "X">>
T_INFLOW == <<"I", "N", "F", "L", "O", "W">>
T_OUTFLOW == <<"O", "U", "T", "F", "L", "O", "W">>

\* a plausible slip: the VC cues are tested in the other order
classify_flow_outflow_first(bk, u) ==
  LET k == Upper(bk)
  IN  IF k = T_CEX
      THEN IF Contains(u, T_WITHDRAW) \/ Contains(u, T_OUTFLOW_FROM_CEX)
              \/ Contains(u, T_WITHDRAWAL)
           THEN "CEX_OUT" ELSE "CEX_IN"
      ELSE IF k = T_VC
      THEN IF Contains(u, T_OUTFLOW) THEN "VC_OUT"
           ELSE IF Contains(u, T_INFLOW) THEN "VC_IN"
           ELSE "VC_IN"
      ELSE IF k = T_DEX THEN "DEX"
      ELSE "MERCADO"

classify_flow(bk, u) ==
  LET k == Upper(bk)
  IN  IF k = T_CEX
      THEN IF Contains(u, T_WITHDRAW) \/ Contains(u, T_OUTFLOW_FROM_CEX)
              \/ Contains(u, T_WITHDRAWAL)
           THEN "CEX_OUT" ELSE "CEX_IN"
      ELSE IF k = T_VC
      THEN IF Contains(u, T_INFLOW) THEN "VC_IN"
           ELSE IF Contains(u, T_OUTFLOW) THEN "VC_OUT"
           ELSE "VC_IN"
      ELSE IF k = T_DEX THEN "DEX"
      ELSE "MERCADO"

\* the text RE_USD is searched in: line.replace(",", "")
UsdSearchText(line) == StripCommas(line)

\* a plausible slip: the amount is not tested against zero
ParseLineKeepZero(line, token, date) ==
  LET km == RE_KIND_search(line)
      um == RE_USD_search(UsdSearchText(line))
  IN  IF km = <<>> \/ um = <<>> THEN <<>>
      ELSE LET hm == RE_HHMMSS_search(line)
               ts_line == IF hm >= 0 THEN (date - (date % (24 * Hour))) + hm ELSE date
           IN  <<[ts |-> ts_line, token |-> token,
                  flow |-> classify_flow(km[1], Upper(line)),
                  usd_amount |-> FloatOf(um[1]), raw |-> line]>>

\* the rows one line contributes: none or one Event
ParseLine(line, token, date) ==
  LET km == RE_KIND_search(line)
      um == RE_USD_search(UsdSearchText(line))
  IN  IF km = <<>> \/ um = <<>> THEN <<>>
      ELSE LET bk == km[1]
               usd_val == FloatOf(um[1])
               hm == RE_HHMMSS_search(line)
               ts_line == IF hm >= 0 THEN (date - (date % (24 * Hour))) + hm ELSE date
           IN  IF usd_val <= 0 THEN <<>>
               ELSE <<[ts |-> ts_line, token |-> token,
                       flow |-> classify_flow(bk, Upper(line)),
                       usd_amount |-> usd_val, raw |-> line]>>

RECURSIVE ParseLines(_, _, _)
ParseLines(lines, token, date) ==
  IF lines = <<>> THEN <<>>
  ELSE ParseLine(Head(lines), token, date) \o ParseLines(Tail(lines), token, date)

\* msg is the sequence of the lines of msg_text
parse_events_from_message(msg, date) ==
  LET token == pick_token_from_text(JoinLines(msg))
  IN  IF token = <<>> THEN <<>> ELSE ParseLines(msg, token[1], date)

----------------------------------------------------------------------------
(* Forward path: one evaluation of a loaded event collection *)

MaxEvents == 3
Now == 30 * Hour
LagChoices == {0, 5}

Event(ts, token, f, usd) ==
  [ts |-> ts, token |-> token, flow |-> f, usd_amount |-> usd * UsdScale]

\* events that probe the window and lag edges
TimeProbes ==
  {Event(Now + off, "AAVE", "CEX_IN", 720) :
     off \in {-24 * Hour - 1, -24 * Hour, -4 * Hour - 1, -Hour,
              -5 * Minute, -5 * Minute + 1}}

\* events that probe the pressure model, inside the 1h or only the 4h window
PressureProbes ==
  {Event(Now + off, "AAVE", "CEX_IN", 72) : off \in {-30 * Minute, -2 * Hour}}
  \cup {Event(Now - 2 * Hour, "AAVE", "CEX_OUT", 720),
        Event(Now - 30 * Minute, "LINK", "VC_IN", 720),
        Event(Now - 45 * Minute, "AAVE", "DEX", 72),
        Event(Now - 45 * Minute, "DOGE", "VC_OUT", 72)}

EventDomain == TimeProbes \cup PressureProbes

None == "none"

InitAgg ==
  /\ pc = "seed"
  /\ breakdown_cap = MAX_BREAKDOWN_LINES
  /\ MIN_LAG_MINUTES \in LagChoices
  /\ SNAPSHOT_EVERY_SEC = None
  /\ events = <<>>
  /\ now_utc = Now
  /\ agg = None /\ bks = None
  /\ pointer = None /\ tN = None /\ history = <<>> /\ notified = <<>>
  /\ msg_text = None /\ msg_date_utc = None /\ rows = None
  /\ base_kind = None /\ raw_line_upper = None /\ flow = None
  /\ norm_pressures = None /\ conf = None /\ prev = <<>>

\* main, FORWARD: events.extend(...) for one seeded message
Seed ==
  /\ pc = "seed"
  /\ Len(events) < MaxEvents
  /\ \E e \in EventDomain : events' = Append(events, e)
  /\ UNCHANGED <<breakdown_cap, pc, MIN_LAG_MINUTES, SNAPSHOT_EVERY_SEC, now_utc, agg, bks,
                 pointer, tN, history, notified, msg_text, msg_date_utc, rows,
                 base_kind, raw_line_upper, flow, norm_pressures, conf, prev>>

\* main, FORWARD: the evaluation at now_utc
Forward ==
  /\ pc = "seed"
  /\ agg' = aggregate_by_window(events, now_utc)
  /\ bks' = breakdowns_by_window(events, now_utc, MAX_BREAKDOWN_LINES)
  /\ pc' = "reported"
  /\ UNCHANGED <<breakdown_cap, MIN_LAG_MINUTES, SNAPSHOT_EVERY_SEC, events, now_utc,
                 pointer, tN, history, notified, msg_text, msg_date_utc, rows,
                 base_kind, raw_line_upper, flow, norm_pressures, conf, prev>>

NextAgg == Seed \/ Forward

SpecAgg == InitAgg /\ [][NextAgg]_vars

----------------------------------------------------------------------------
(* Claims about the forward evaluation *)

Reported == pc = "reported"

\* the indices of events the selection rule of a window admits for a token
Admitted(token, wlab) ==
  {i \in 1..Len(events) :
     /\ events[i].token = token
     /\ now_utc - WINDOWS[wlab] * Hour <= events[i].ts
     /\ events[i].ts <= now_utc - MIN_LAG_MINUTES * Minute}

Cells == TokenSet \X DOMAIN WINDOWS

\* C1 (as amended): for every token and window with a non-empty selected
\* subset, the final cumulative confidence of the trace, which is rendered to
\* one decimal, lies within 0.5 of the integer confidence aggregate_by_window
\* reports, and the window total the breakdown reports is that integer.
C1_FinalTraceConfidenceWithinRounding ==
  Reported =>
    \A c \in Cells :
      LET b == bks[c[1]][c[2]]
          a == agg[c[1]][c[2]]
      IN  b.events_list # <<>> =>
            /\ Abs(Last(b.events_list).conf_after - 10 * a.conf) <= 5
            /\ b.conf = a.conf

\* C1 (as stated): the final cumulative confidence equals the aggregate's
C1_FinalTraceConfidenceEqualsAggregate ==
  Reported =>
    \A c \in Cells :
      LET b == bks[c[1]][c[2]]
      IN  b.events_list # <<>> =>
            Last(b.events_list).conf_after = 10 * agg[c[1]][c[2]].conf

C1_Witness ==
  /\ Reported
  /\ \E c \in Cells :
       LET l == bks[c[1]][c[2]].events_list
       IN  /\ Len(l) >= 3
           /\ l[1].kind # l[2].kind
           /\ l[1].conf_after # l[Len(l)].conf_after
           /\ l[Len(l)].conf_after = 10 * agg[c[1]][c[2]].conf

\* C4: a window counts exactly the events with now - H <= ts <= now - lag, in
\* the aggregation and in the breakdown, so no event later than now - lag is
\* counted in any window.
C4_LagExclusion ==
  Reported =>
    \A c \in Cells :
      /\ agg[c[1]][c[2]].events = Cardinality(Admitted(c[1], c[2]))
      /\ bks[c[1]][c[2]].events = Cardinality(Admitted(c[1], c[2]))
      /\ \A i \in 1..Len(bks[c[1]][c[2]].events_list) :
           bks[c[1]][c[2]].events_list[i].ts <= now_utc - MIN_LAG_MINUTES * Minute

C4_Witness ==
  /\ Reported
  /\ MIN_LAG_MINUTES > 0
  /\ \E i \in 1..Len(events) :
       /\ events[i].ts > now_utc - MIN_LAG_MINUTES * Minute
       /\ events[i].ts <= now_utc
       /\ agg[events[i].token]["1h"].events = 1
       /\ agg[events[i].token]["24h"].events = 2

\* C5: every confidence of aggregate_by_window is an integer of 0..100, and a
\* token and window with an empty selected subset report exactly
\* confidence 50, event count 0, signed USD sum 0.
C5_ConfidenceRange ==
  Reported =>
    \A c \in Cells :
      /\ agg[c[1]][c[2]].conf \in 0..100
      /\ Admitted(c[1], c[2]) = {} =>
           agg[c[1]][c[2]] = [conf |-> 50, events |-> 0, usd |-> 0]

C5_Witness ==
  /\ Reported
  /\ agg["AAVE"]["1h"] = [conf |-> 50, events |-> 0, usd |-> 0]
  /\ agg["AAVE"]["4h"].conf < 50
  /\ agg["AAVE"]["24h"].conf > 50

----------------------------------------------------------------------------
(* One token and window fed CEX_IN events one at a time, the aggregation   *)
(* applied after each                                                      *)

MaxMonoEvents == 4
MonoAmounts == {8, 72, 720}

\* the normalized pressures aggregate_by_window buckets for a token and window
Bucket(evs, now, token, wlab) ==
  NormPressures(OfToken(events_in_window(evs, now, WINDOWS[wlab]), token))

InitMono ==
  /\ pc = "mono"
  /\ breakdown_cap = MAX_BREAKDOWN_LINES
  /\ MIN_LAG_MINUTES = 5
  /\ SNAPSHOT_EVERY_SEC = None
  /\ events = <<>>
  /\ now_utc = Now
  /\ agg = aggregate_by_window(<<>>, Now)
  /\ bks = None
  /\ pointer = None /\ tN = None /\ history = <<>> /\ notified = <<>>
  /\ msg_text = None /\ msg_date_utc = None /\ rows = None
  /\ base_kind = None /\ raw_line_upper = None /\ flow = None
  /\ norm_pressures = <<>>
  /\ conf = 50
  /\ prev = <<>>

\* one more CEX_IN event of the token inside the 1h window, then
\* aggregate_by_window over the grown collection
AddCexIn ==
  /\ pc = "mono"
  /\ Len(events) < MaxMonoEvents
  /\ \E usd \in MonoAmounts :
       LET evs == Append(events, Event(Now - 30 * Minute, "AAVE", "CEX_IN", usd))
           out == aggregate_by_window(evs, now_utc)
       IN  /\ events' = evs
           /\ agg' = out
           /\ norm_pressures' = Bucket(evs, now_utc, "AAVE", "1h")
           /\ conf' = out["AAVE"]["1h"].conf
  /\ prev' = <<[norm_pressures |-> norm_pressures, conf |-> conf]>>
  /\ UNCHANGED <<breakdown_cap, pc, MIN_LAG_MINUTES, SNAPSHOT_EVERY_SEC, now_utc, bks,
                 pointer, tN, history, notified, msg_text, msg_date_utc, rows,
                 base_kind, raw_line_upper, flow>>

NextMono == AddCexIn

SpecMono == InitMono /\ [][NextMono]_vars

\* the scale S of a list of normalized pressures, doubled:
\* S = max(1, median(|x|, x # 0) * 10), or 1 when every x is 0
Scale2(np) ==
  LET nz == SelectSeq(np, LAMBDA x : x # 0)
  IN  IF nz = <<>> THEN 2 * Micro
      ELSE Max(2 * Micro, 10 * Median2(AbsAll(nz)))

\* C6 (as amended): with only CEX_IN events in the subset, adding a further
\* CEX_IN event never decreases the confidence provided the addition does not
\* raise the scale S of the subset.
C6_MonotoneWhileScaleNotRaised ==
  (pc = "mono" /\ prev # <<>>) =>
    (Scale2(norm_pressures) <= Scale2(prev[1].norm_pressures) => conf >= prev[1].conf)

\* C6 (as stated): adding a CEX_IN event never decreases the confidence
C6_Monotone ==
  (pc = "mono" /\ prev # <<>>) => conf >= prev[1].conf

C6_Witness ==
  /\ pc = "mono" /\ prev # <<>>
  /\ Len(prev[1].norm_pressures) >= 2
  /\ Scale2(prev[1].norm_pressures) > 2 * Micro
  /\ Scale2(norm_pressures) <= Scale2(prev[1].norm_pressures)
  /\ conf > prev[1].conf

----------------------------------------------------------------------------
(* The parser applied to one message *)

MaxFrags == 3

\* the pieces an amount text is put together from
AmountFrags == {<<"$">>, <<"-">>, <<" ">>, <<"0">>, <<"7", "2">>,
                <<",", "0", "0", "0">>, <<".", "5">>, <<",">>}

RECURSIVE Flatten(_)
Flatten(ss) == IF ss = <<>> THEN <<>> ELSE Head(ss) \o Flatten(Tail(ss))

AmountTexts ==
  {Flatten(fs) : fs \in UNION {[1..n -> AmountFrags] : n \in 0..MaxFrags}}

\* what precedes the amount on the line
Heads == {<<"C", "E", "X", " ">>,
          <<"c", "e", "x", " ", "w", "i", "t", "h", "d", "r", "a", "w", "a", "l", " ">>,
          <<"V", "C", " ", "O", "U", "T", "F", "L", "O", "W", " ", "0", "9", ":", "0", "5", ":", "0", "7", " ">>,
          <<"D", "E", "X", "T", "E", "R", " ">>,
          <<"L", "I", "N", "K", " ", "D", "E", "X", " ">>,
          <<"M", "E", "R", "C", "A", "D", "O", " ">>,
          <<>>}

\* an optional first line of the message
Titles == {<<>>, <<<<"A", "a", "v", "e", " ", "a", "l", "e", "r", "t">>>>}

ReceiptTime == 34 * Hour + 7 * Minute + 10

InitParse ==
  /\ pc = "parse"
  /\ breakdown_cap = MAX_BREAKDOWN_LINES
  /\ MIN_LAG_MINUTES = 5
  /\ SNAPSHOT_EVERY_SEC = None
  /\ events = <<>>
  /\ now_utc = None
  /\ agg = None /\ bks = None
  /\ pointer = None /\ tN = None /\ history = <<>> /\ notified = <<>>
  /\ \E t \in Titles, h \in Heads, a \in AmountTexts : msg_text = t \o <<h \o a>>
  /\ msg_date_utc = ReceiptTime
  /\ rows = None
  /\ base_kind = None /\ raw_line_upper = None /\ flow = None
  /\ norm_pressures = None /\ conf = None /\ prev = <<>>

\* main: events.extend(parse_events_from_message(text, ts))
Parse ==
  /\ pc = "parse"
  /\ rows' = parse_events_from_message(msg_text, msg_date_utc)
  /\ events' = events \o rows'
  /\ pc' = "parsed"
  /\ UNCHANGED <<breakdown_cap, MIN_LAG_MINUTES, SNAPSHOT_EVERY_SEC, now_utc, agg, bks,
                 pointer, tN, history, notified, msg_text, msg_date_utc,
                 base_kind, raw_line_upper, flow, norm_pressures, conf, prev>>

NextParse == Parse

SpecParse == InitParse /\ [][NextParse]_vars

\* the rows a line of the message contributed
RowsOf(line) == SelectSeq(rows, LAMBDA r : r.raw = line)

\* the line carries a "$" that a digit follows, blanks and commas aside
HasDollarNumber(line) ==
  \E j \in 1..Len(line), k \in 1..Len(line) :
    /\ j < k /\ line[j] = "$" /\ line[k] \in Digits
    /\ \A i \in (j + 1)..(k - 1) : line[i] \in {" ", ","}

\* the number written after the first such "$" is zero: no digit of it, up to
\* the first character that is no digit, comma or point, differs from 0
ZeroDollarNumber(line) ==
  \E j \in 1..Len(line), k \in 1..Len(line) :
    /\ j < k /\ line[j] = "$" /\ line[k] \in Digits
    /\ \A i \in (j + 1)..(k - 1) : line[i] \in {" ", ","}
    /\ \A j2 \in 1..(j - 1) :
         ~(line[j2] = "$" /\ \E k2 \in (j2 + 1)..Len(line) :
             /\ line[k2] \in Digits
             /\ \A i \in (j2 + 1)..(k2 - 1) : line[i] \in {" ", ","})
    /\ \A i \in k..Len(line) :
         (\A h \in k..i : line[h] \in Digits \cup {",", "."}) => line[i] \in {"0", ",", "."}

RECURSIVE Significant(_)
Significant(ds) ==
  IF ds # <<>> /\ Head(ds) = "0" THEN Significant(Tail(ds)) ELSE ds

\* C8: a row parsed from a line that writes its amount as "$" and a grouped
\* decimal number carries the value of that number, separators stripped.
C8_GroupedAmountValue ==
  pc = "parsed" =>
    \A i \in 1..Len(rows) :
      LET um == RE_USD_search(rows[i].raw)
      IN  um # <<>> =>
            /\ Len(Significant(um[1].int)) <= 5
            /\ rows[i].usd_amount = FloatOf(um[1])

----------------------------------------------------------------------------
(* The classifier applied to a category and an uppercased line *)

MaxCueWords == 3

CueWords == {T_WITHDRAW, T_WITHDRAWAL, T_OUTFLOW, T_INFLOW,
             <<"F", "R", "O", "M">>, T_CEX, T_VC}

RECURSIVE JoinWords(_)
JoinWords(ws) ==
  IF ws = <<>> THEN <<>>
  ELSE IF Len(ws) = 1 THEN ws[1]
  ELSE ws[1] \o <<" ">> \o JoinWords(Tail(ws))

CueLines ==
  {JoinWords(ws) : ws \in UNION {[1..n -> CueWords] : n \in 0..MaxCueWords}}

Categories == {T_CEX, T_VC, T_DEX, T_MERCADO, <<"v", "c">>, <<"C", "e", "x">>, <<"W", "H", "A", "L", "E">>}

InitClassify ==
  /\ pc = "classify"
  /\ breakdown_cap = MAX_BREAKDOWN_LINES
  /\ MIN_LAG_MINUTES = 5
  /\ SNAPSHOT_EVERY_SEC = None
  /\ events = <<>>
  /\ now_utc = None
  /\ agg = None /\ bks = None
  /\ pointer = None /\ tN = None /\ history = <<>> /\ notified = <<>>
  /\ msg_text = None /\ msg_date_utc = None /\ rows = None
  /\ base_kind \in Categories
  /\ raw_line_upper \in CueLines
  /\ flow = None
  /\ norm_pressures = None /\ conf = None /\ prev = <<>>

Classify ==
  /\ pc = "classify"
  /\ flow' = classify_flow(base_kind, raw_line_upper)
  /\ pc' = "classified"
  /\ UNCHANGED <<breakdown_cap, MIN_LAG_MINUTES, SNAPSHOT_EVERY_SEC, events, now_utc, agg, bks,
                 pointer, tN, history, notified, msg_text, msg_date_utc, rows,
                 base_kind, raw_line_upper, norm_pressures, conf, prev>>

NextClassify == Classify

SpecClassify == InitClassify /\ [][NextClassify]_vars

\* C10: the flow kind is decided by the category (whatever its case) and the
\* cues of the line alone: CEX gives CEX_OUT iff the line contains WITHDRAW,
\* WITHDRAWAL or OUTFLOW FROM CEX, else CEX_IN; VC gives VC_IN if it contains
\* INFLOW, else VC_OUT if it contains OUTFLOW, else VC_IN; DEX gives DEX; any
\* other category gives MERCADO (the market kind); the result is always one
\* of the six flow kinds.
C10_ClassifyTable ==
  pc = "classified" =>
    LET k == Upper(base_kind)
        has(cue) == Contains(raw_line_upper, cue)
    IN  /\ flow \in FlowKinds
        /\ k = T_CEX =>
             (flow = "CEX_OUT" <=>
                (has(T_WITHDRAW) \/ has(T_WITHDRAWAL) \/ has(T_OUTFLOW_FROM_CEX)))
             /\ flow \in {"CEX_OUT", "CEX_IN"}
        /\ k = T_VC =>
             /\ has(T_INFLOW) => flow = "VC_IN"
             /\ (~has(T_INFLOW) /\ has(T_OUTFLOW)) => flow = "VC_OUT"
             /\ (~has(T_INFLOW) /\ ~has(T_OUTFLOW)) => flow = "VC_IN"
        /\ k = T_DEX => flow = "DEX"
        /\ k \notin {T_CEX, T_VC, T_DEX} => flow = "MERCADO"

C10_Witness ==
  /\ pc = "classified"
  /\ base_kind = <<"v", "c">>
  /\ Contains(raw_line_upper, T_INFLOW)
  /\ Contains(raw_line_upper, T_OUTFLOW)
  /\ flow = "VC_IN"

----------------------------------------------------------------------------
(* BACKTEST: the replay of a loaded history *)

MaxReplayEvents == 3
StepChoices == {30, 90, 300, 3600}

\* REPLAY_SEED_SNAPSHOTS, WRITE_SNAPSHOT and WRITE_HISTORY at their defaults:
\* every iteration writes the snapshot file and appends one history row
REPLAY_SEED_SNAPSHOTS == TRUE

\* a history inside one half hour: two small HYPE inflows, the second on the
\* five-minute and the ninety-second grids, a larger HYPE inflow on the
\* five-minute grid, and a late LINK withdrawal off every grid.  After two
\* of the first inflow the larger one brings the confidence to 90, which is
\* 50 + REPORT_DEVIATION exactly; with the second inflow it goes beyond.
ReplayDomain ==
  {Event(Now + 7 * Minute + 10, "HYPE", "CEX_IN", 1),
   Event(Now + 10 * Minute, "HYPE", "CEX_IN", 8),
   Event(Now + 15 * Minute, "HYPE", "CEX_IN", 143),
   Event(Now + 21 * Minute + 30, "LINK", "CEX_OUT", 720)}

RECURSIVE SeqsUpTo(_, _)
SeqsUpTo(S, n) ==
  IF n = 0 THEN {<<>>}
  ELSE LET shorter == SeqsUpTo(S, n - 1)
       IN  shorter \cup {Append(s, e) : s \in shorter, e \in S}

\* a plausible slip: the verdict is returned after the first token
should_send_first_token(a) ==
  \E wlab \in {"1h", "4h", "24h"} :
    Abs(a[TOKENS[1]][wlab].conf - 50) >= REPORT_DEVIATION

should_send(a) ==
  \E i \in 1..Len(TOKENS) : \E wlab \in {"1h", "4h", "24h"} :
    Abs(a[TOKENS[i]][wlab].conf - 50) >= REPORT_DEVIATION

\* ts.replace(minute=(ts.minute // (sec // 60)) * (sec // 60), second=0),
\* for sec // 60 > 0
AlignedStart(ts, sec) ==
  LET step_min == sec \div 60
      minute == (ts % Hour) \div Minute
  IN  (ts - (ts % Hour)) + ((minute \div step_min) * step_min) * Minute

\* a plausible slip: an event stamped exactly at the pointer is left out
upto_strict(evs, p) == SelectSeq(evs, LAMBDA e : e.ts < p)

\* [e for e in events if e.ts <= pointer]
upto(evs, p) == SelectSeq(evs, LAMBDA e : e.ts <= p)

\* a plausible slip: the loop stops one step early when tN lies on the grid
pointer_in_range_strict(p, tn) == p < tn

\* while pointer <= tN
pointer_in_range(p, tn) == p <= tn

InitReplay ==
  /\ pc = "loaded"
  /\ breakdown_cap = MAX_BREAKDOWN_LINES
  /\ MIN_LAG_MINUTES \in LagChoices
  /\ SNAPSHOT_EVERY_SEC \in StepChoices
  /\ events \in SeqsUpTo(ReplayDomain, MaxReplayEvents)
  /\ now_utc = Now + Hour
  /\ agg = None /\ bks = None
  /\ pointer = None /\ tN = None /\ history = <<>> /\ notified = <<>>
  /\ msg_text = None /\ msg_date_utc = None /\ rows = None
  /\ base_kind = None /\ raw_line_upper = None /\ flow = None
  /\ norm_pressures = None /\ conf = None /\ prev = <<>>

\* main, BACKTEST, "if not events": one evaluation of the empty collection
\* at the wall clock, then return
ReplayEmpty ==
  /\ pc = "loaded"
  /\ events = <<>>
  /\ agg' = aggregate_by_window(<<>>, now_utc)
  /\ bks' = breakdowns_by_window(<<>>, now_utc, MAX_BREAKDOWN_LINES)
  /\ history' = Append(history, now_utc)
  /\ notified' = IF should_send(agg') THEN Append(notified, now_utc)
                 ELSE notified
  /\ pc' = "done"
  /\ UNCHANGED <<breakdown_cap, MIN_LAG_MINUTES, SNAPSHOT_EVERY_SEC, events, now_utc,
                 pointer, tN, msg_text, msg_date_utc, rows,
                 base_kind, raw_line_upper, flow, norm_pressures, conf, prev>>

\* main, BACKTEST: the sort, t0, tN and pointer = t0.  The alignment divides
\* by SNAPSHOT_EVERY_SEC // 60; when that is 0 the run ends there with
\* ZeroDivisionError.  The sort has already been done in place.
ReplayStart ==
  /\ pc = "loaded"
  /\ events # <<>>
  /\ events' = SortByTs(events)
  /\ IF SNAPSHOT_EVERY_SEC \div 60 = 0
     THEN /\ pc' = "crashed"
          /\ UNCHANGED <<pointer, tN>>
     ELSE /\ pointer' = AlignedStart(events'[1].ts, SNAPSHOT_EVERY_SEC)
          /\ tN' = Last(events').ts
          /\ pc' = "replay"
  /\ UNCHANGED <<breakdown_cap, MIN_LAG_MINUTES, SNAPSHOT_EVERY_SEC, now_utc, agg, bks,
                 history, notified, msg_text, msg_date_utc, rows,
                 base_kind, raw_line_upper, flow, norm_pressures, conf, prev>>

\* one iteration of the while loop
ReplayStep ==
  /\ pc = "replay"
  /\ pointer_in_range(pointer, tN)
  /\ agg' = aggregate_by_window(upto(events, pointer), pointer)
  /\ bks' = breakdowns_by_window(upto(events, pointer), pointer,
                                 MAX_BREAKDOWN_LINES)
  /\ history' = IF REPLAY_SEED_SNAPSHOTS THEN Append(history, pointer)
                ELSE history
  /\ notified' = IF should_send(agg') THEN Append(notified, pointer)
                 ELSE notified
  /\ pointer' = pointer + SNAPSHOT_EVERY_SEC
  /\ UNCHANGED <<breakdown_cap, pc, MIN_LAG_MINUTES, SNAPSHOT_EVERY_SEC, events, now_utc, tN,
                 msg_text, msg_date_utc, rows,
                 base_kind, raw_line_upper, flow, norm_pressures, conf, prev>>

\* the loop condition fails: return
ReplayReturn ==
  /\ pc = "replay"
  /\ ~pointer_in_range(pointer, tN)
  /\ pc' = "done"
  /\ UNCHANGED <<breakdown_cap, MIN_LAG_MINUTES, SNAPSHOT_EVERY_SEC, events, now_utc, agg,
                 bks, pointer, tN, history, notified, msg_text, msg_date_utc,
                 rows, base_kind, raw_line_upper, flow, norm_pressures, conf,
                 prev>>

NextReplay == ReplayEmpty \/ ReplayStart \/ ReplayStep \/ ReplayReturn

SpecReplay == InitReplay /\ [][NextReplay]_vars

----------------------------------------------------------------------------
(* Claims about the replay *)

\* a replay iteration has written a snapshot; its instant is Last(history)
Stepped == pc \in {"replay", "done"} /\ events # <<>> /\ history # <<>>

\* the replay of a non-empty history has ended, by return or by exception
ReplayEnded == pc \in {"done", "crashed"} /\ events # <<>>

\* C2: at every replay step with evaluation instant p, the aggregation made
\* from the prefix subset {e : e.ts <= p} with now = p is, for every tracked
\* token and window, the aggregation of the full event collection with
\* now = p under the same lag and windows.
C2_PrefixEqualsFull ==
  Stepped => agg = aggregate_by_window(events, Last(history))

\* a step whose prefix is a proper, non-empty part of the collection, with an
\* event counted
C2_Witness ==
  /\ Stepped
  /\ \E i \in 1..Len(events) : events[i].ts > Last(history)
  /\ \E i \in 1..Len(events) : /\ events[i].ts <= Last(history)
                               /\ events[i].ts > Last(history)
                                                 - MIN_LAG_MINUTES * Minute
  /\ \E c \in Cells : agg[c[1]][c[2]].events > 0

\* C3 (as amended): for every non-empty event set, a replay run to
\* completion has emitted a snapshot, the last one at the last instant p of
\* the grid p0, p0 + step, ... with p <= tN (tN - step < p), and its
\* aggregation is, for every tracked token and window, aggregate_by_window
\* applied once to the full event set at that instant p.
C3_LastSnapshotEqualsFullAtLastInstant ==
  (pc = "done" /\ events # <<>>) =>
    /\ history # <<>>
    /\ Last(history) <= tN
    /\ tN < Last(history) + SNAPSHOT_EVERY_SEC
    /\ agg = aggregate_by_window(events, Last(history))

\* C3 (as stated): the aggregation of the last snapshot of a completed replay
\* is aggregate_by_window applied to the full event set at tN.
C3_LastSnapshotEqualsFullAtTN ==
  (pc = "done" /\ events # <<>>) => agg = aggregate_by_window(events, tN)

\* a completed replay whose last instant lies before tN and whose last
\* snapshot counts an event
C3_Witness ==
  /\ pc = "done" /\ events # <<>>
  /\ Last(history) < tN
  /\ \E c \in Cells : agg[c[1]][c[2]].events > 0

\* the instants p0, p0 + step, ... that are <= tn
Grid(p0, step, tn) == [k \in 1..((tn - p0) \div step + 1) |-> p0 + (k - 1) * step]

\* C9: for every non-empty event set and every positive step duration, the
\* replay starts at an instant p0 <= t0 that is a multiple of the step within
\* the hour, emits exactly one snapshot for each of p0, p0 + step, ... that is
\* <= tN, none for a later instant, and terminates.
C9_ReplayCoversGrid ==
  ReplayEnded =>
    /\ pc = "done"
    /\ history # <<>>
    /\ history[1] <= events[1].ts
    /\ (history[1] % Hour) % SNAPSHOT_EVERY_SEC = 0
    /\ history = Grid(history[1], SNAPSHOT_EVERY_SEC, Last(events).ts)

\* the instants at which send_to_channel was called
Notified == {notified[i] : i \in 1..Len(notified)}

\* C11: at every replay evaluation instant a notification is handed to the
\* notifier if and only if the aggregation of that instant's snapshot has a
\* tracked token and a window of 1h, 4h, 24h with
\* |confidence - 50| >= REPORT_DEVIATION; nothing but the aggregation and the
\* threshold enters the decision.
C11_NotifyIffDeviation ==
  Stepped =>
    /\ (Last(history) \in Notified) <=>
         (\E c \in Cells : \/ agg[c[1]][c[2]].conf >= 50 + REPORT_DEVIATION
                           \/ agg[c[1]][c[2]].conf <= 50 - REPORT_DEVIATION)
    /\ \A i \in 1..Len(notified) : \E j \in 1..Len(history) :
         notified[i] = history[j]

\* a replay that notified at its latest instant and not at an earlier one
C11_Witness ==
  /\ Stepped
  /\ Last(history) \in Notified
  /\ agg["HYPE"]["1h"].conf = 50 + REPORT_DEVIATION
  /\ \E j \in 1..Len(history) : history[j] \notin Notified

----------------------------------------------------------------------------
(* The breakdown of a loaded collection under a small cap *)

MaxTraceEvents == 4
CapChoices == {0, 1, 2}

\* AAVE events in arrival order: two stamped at the same instant, one
\* outside the 1h window
TraceDomain ==
  {Event(Now - 30 * Minute, "AAVE", "CEX_IN", 72),
   Event(Now - 30 * Minute, "AAVE", "VC_IN", 8),
   Event(Now - 20 * Minute, "AAVE", "CEX_OUT", 720),
   Event(Now - 2 * Hour, "AAVE", "DEX", 720)}

InitTrace ==
  /\ pc = "trace"
  /\ breakdown_cap \in CapChoices
  /\ MIN_LAG_MINUTES = 5
  /\ SNAPSHOT_EVERY_SEC = None
  /\ events = <<>>
  /\ now_utc = Now
  /\ agg = None /\ bks = None
  /\ pointer = None /\ tN = None /\ history = <<>> /\ notified = <<>>
  /\ msg_text = None /\ msg_date_utc = None /\ rows = None
  /\ base_kind = None /\ raw_line_upper = None /\ flow = None
  /\ norm_pressures = None /\ conf = None /\ prev = <<>>

\* events.extend(...) for one more message
TraceSeed ==
  /\ pc = "trace"
  /\ Len(events) < MaxTraceEvents
  /\ \E e \in TraceDomain : events' = Append(events, e)
  /\ UNCHANGED <<breakdown_cap, pc, MIN_LAG_MINUTES, SNAPSHOT_EVERY_SEC,
                 now_utc, agg, bks, pointer, tN, history, notified, msg_text,
                 msg_date_utc, rows, base_kind, raw_line_upper, flow,
                 norm_pressures, conf, prev>>

\* aggregate_by_window and breakdowns_by_window at now_utc, the breakdown
\* under the configured cap
TraceReport ==
  /\ pc = "trace"
  /\ agg' = aggregate_by_window(events, now_utc)
  /\ bks' = breakdowns_by_window(events, now_utc, breakdown_cap)
  /\ pc' = "traced"
  /\ UNCHANGED <<breakdown_cap, MIN_LAG_MINUTES, SNAPSHOT_EVERY_SEC, events,
                 now_utc, pointer, tN, history, notified, msg_text,
                 msg_date_utc, rows, base_kind, raw_line_upper, flow,
                 norm_pressures, conf, prev>>

NextTrace == TraceSeed \/ TraceReport

SpecTrace == InitTrace /\ [][NextTrace]_vars

\* the trace of a token and window with no cap applied
FullTrace(token, wlab) ==
  breakdowns_by_window(events, now_utc, 0)[token][wlab].events_list

\* the trace that would result from walking only the retained events
RetainedOnlyTrace(token, wlab) ==
  LET seq == SortByTs(OfToken(events_in_window(events, now_utc, WINDOWS[wlab]),
                              token))
      kept == SubSeq(seq, Len(seq) - breakdown_cap + 1, Len(seq))
  IN  breakdowns_by_window(kept, now_utc, 0)[token][wlab].events_list

\* C12: when the trace of a token and window has more records than a cap
\* max_lines > 0, the output keeps exactly the last max_lines records by
\* position, each with the running confidence and the share it has in the
\* uncapped trace, and the window totals (confidence, event count, signed USD
\* sum) are those of the full selected sequence.
C12_TruncationKeepsFullValues ==
  (pc = "traced" /\ breakdown_cap > 0) =>
    \A c \in Cells :
      LET full == FullTrace(c[1], c[2])
          out == bks[c[1]][c[2]].events_list
      IN  Len(full) > breakdown_cap =>
            /\ Len(out) = breakdown_cap
            /\ \A k \in 1..breakdown_cap :
                 out[k] = full[Len(full) - breakdown_cap + k]
            /\ bks[c[1]][c[2]].conf = agg[c[1]][c[2]].conf
            /\ bks[c[1]][c[2]].events = Cardinality(Admitted(c[1], c[2]))
            /\ bks[c[1]][c[2]].events = Len(full)
            /\ bks[c[1]][c[2]].usd = agg[c[1]][c[2]].usd

\* a capped trace whose retained records differ from what a walk over the
\* retained events alone would give
C12_Witness ==
  /\ pc = "traced"
  /\ breakdown_cap = 2
  /\ bks["AAVE"]["1h"].events = 4
  /\ Len(bks["AAVE"]["1h"].events_list) = 2
  /\ bks["AAVE"]["1h"].events_list # RetainedOnlyTrace("AAVE", "1h")

----------------------------------------------------------------------------
(* The lag in the replay *)

\* the last instant of the grid that starts at history[1]: the largest
\* history[1] + k * SNAPSHOT_EVERY_SEC that is <= tN
LastInstant ==
  history[1]
    + ((tN - history[1]) \div SNAPSHOT_EVERY_SEC) * SNAPSHOT_EVERY_SEC

\* the indices of the events of a token that a window selects at instant p
SelectedAt(token, wlab, p) ==
  {i \in 1..Len(events) :
     /\ events[i].token = token
     /\ p - WINDOWS[wlab] * Hour <= events[i].ts
     /\ events[i].ts <= p - MIN_LAG_MINUTES * Minute}

\* C13: in a replay with lag > 0, no snapshot counts, in any window, an event
\* stamped later than (last evaluation instant - lag); in particular an event
\* stamped tN, the latest timestamp, is counted in no snapshot.
C13_LateEventsNeverCounted ==
  (Stepped /\ MIN_LAG_MINUTES > 0) =>
    \A c \in Cells :
      /\ agg[c[1]][c[2]].events
           = Cardinality(SelectedAt(c[1], c[2], Last(history)))
      /\ \A i \in SelectedAt(c[1], c[2], Last(history)) :
           /\ events[i].ts <= LastInstant - MIN_LAG_MINUTES * Minute
           /\ events[i].ts < tN
      /\ \A k \in 1..Len(bks[c[1]][c[2]].events_list) :
           /\ bks[c[1]][c[2]].events_list[k].ts
                <= LastInstant - MIN_LAG_MINUTES * Minute
           /\ bks[c[1]][c[2]].events_list[k].ts < tN

\* a completed replay with lag > 0 whose last instant is tN itself and whose
\* last snapshot counts earlier events
C13_Witness ==
  /\ pc = "done" /\ events # <<>>
  /\ MIN_LAG_MINUTES > 0
  /\ Last(history) = tN
  /\ agg["HYPE"]["1h"].events > 0
  /\ agg["HYPE"]["1h"].events < Len(OfToken(events, "HYPE"))

====
